---- MODULE Spec2Model ----
(***************************************************************************)
(* A model of the script bridge of nexus3-go (GetScript, CreateScript,     *)
(* UpdateScript, DeleteScript, ExecuteScript, Script.ensureAndExecute,     *)
(* EphemeralScript.Execute) and of the paginated listings                  *)
(* (ListAssetsPages, ListComponentsPages), against a Nexus server modelled *)
(* by the status codes the client's status maps name.                      *)
(***************************************************************************)
EXTENDS Integers, Sequences, FiniteSets, TLC

\* ------------------------------------------------------------------ bounds
MaxCalls == 2       \* calls one caller makes in a run
MaxTextLen == 1     \* length of a result / exception text, in characters
MaxPages == 3       \* pages a listing server holds
MaxFetches == 4     \* page fetches of one traversal (cyclic servers never end)

\* ------------------------------------------------------------------ values
Callers == {1, 2}
ScriptNames == {"p1"}            \* names the bridge reconciles (blobstores.go)
OtherNames == {"p2"}             \* a script nobody in the model addresses
Uuids == {"u1"}                  \* names uuid.New() draws
Names == ScriptNames \cup OtherNames \cup Uuids
Bodies == {"v1", "v2"}           \* script contents
Absent == "absent"
NoContent == "nil"               \* a nil *string Content
EmptyContent == ""               \* Content: String("")

QUOTE == "\""
BSL == "\\"
Chars == {"a", QUOTE, BSL}

RECURSIVE SeqsUpTo(_, _)
SeqsUpTo(S, n) ==
    IF n = 0 THEN {<<>>}
    ELSE LET shorter == SeqsUpTo(S, n - 1)
         IN shorter \cup {Append(s, x) : s \in shorter, x \in S}

Texts == SeqsUpTo(Chars, MaxTextLen)

\* ------------------------------------------------------------------ errors
\* A Go error is its text; kind records which statement made it.
NoErr == [kind |-> "nil", msg |-> <<>>]
TransportErr == [kind |-> "transport", msg |-> <<"dial", "tcp">>]
StatusErr(m) == [kind |-> "status", msg |-> <<m>>]
SafetyBeltErr == [kind |-> "safety_belt", msg |-> <<"status_code">>]
BodyErr(content) == [kind |-> "body", msg |-> content]
JsonErr == [kind |-> "json", msg |-> <<"invalid", "character">>]
InvalidArgErr == [kind |-> "invalid_argument", msg |-> <<"must", "contain">>]
MarshalErr == [kind |-> "marshal", msg |-> <<"unsupported", "type">>]
ErrorsNew(text) == [kind |-> "new", msg |-> text]

\* ------------------------------------------------------------------ JSON
\* The server writes a text as a JSON string literal: quote and backslash
\* are escaped with a backslash.
RECURSIVE JsonEscape(_)
JsonEscape(text) ==
    IF text = <<>> THEN <<>>
    ELSE LET c == Head(text)
         IN (IF c \in {QUOTE, BSL} THEN <<BSL, c>> ELSE <<c>>)
            \o JsonEscape(Tail(text))

\* encoding/json reads the inside of a string literal: a backslash must be
\* followed by an escapable character, a bare quote ends the literal early.
RECURSIVE JsonUnescape(_)
JsonUnescape(lit) ==
    IF lit = <<>> THEN [ok |-> TRUE, val |-> <<>>]
    ELSE IF Head(lit) = BSL
    THEN IF Len(lit) < 2 \/ lit[2] \notin {QUOTE, BSL}
         THEN [ok |-> FALSE, val |-> <<>>]
         ELSE LET rest == JsonUnescape(SubSeq(lit, 3, Len(lit)))
              IN [ok |-> rest.ok, val |-> <<lit[2]>> \o rest.val]
    ELSE IF Head(lit) = QUOTE
    THEN [ok |-> FALSE, val |-> <<>>]
    ELSE LET rest == JsonUnescape(Tail(lit))
         IN [ok |-> rest.ok, val |-> <<Head(lit)>> \o rest.val]

\* The execute endpoint's body for a result or exception text:
\* {"name": ..., "result": "<text>"} (the name field is not read by the code
\* under study and is left out).
ResultPrefix == <<"{", "result", ":", QUOTE>>
ResultSuffix == <<QUOTE, "}">>
ExecutionResultBody(text) == ResultPrefix \o JsonEscape(text) \o ResultSuffix

\* a *ExecuteScriptResponse: nil, or a struct whose Result is nil or a text
NilRes == [nil |-> TRUE, hasResult |-> FALSE, Result |-> <<>>]
EmptyRes == [nil |-> FALSE, hasResult |-> FALSE, Result |-> <<>>]
ResOf(text) == [nil |-> FALSE, hasResult |-> TRUE, Result |-> text]

\* json.Unmarshal(bytes, &res) for res *ExecuteScriptResponse, res nil before
UnmarshalResult(bytes) ==
    IF bytes = <<"null">> THEN [err |-> NoErr, res |-> NilRes]
    ELSE IF bytes = <<"{", "}">> THEN [err |-> NoErr, res |-> EmptyRes]
    ELSE IF /\ Len(bytes) >= Len(ResultPrefix) + Len(ResultSuffix)
            /\ SubSeq(bytes, 1, Len(ResultPrefix)) = ResultPrefix
            /\ SubSeq(bytes, Len(bytes) - 1, Len(bytes)) = ResultSuffix
    THEN LET lit == SubSeq(bytes, Len(ResultPrefix) + 1, Len(bytes) - 2)
             dec == JsonUnescape(lit)
         IN IF dec.ok THEN [err |-> NoErr, res |-> ResOf(dec.val)]
            ELSE [err |-> JsonErr, res |-> NilRes]
    ELSE [err |-> JsonErr, res |-> NilRes]


\* ------------------------------------------------------------------ transport
\* What can happen to one HTTP exchange (client.go, Do): the request and the
\* response both arrive; the connection fails before the server sees the
\* request; the server acts but the response is lost; a proxy or the server
\* answers 503 without acting; a 2xx answer carries an undecodable body.
NetOK == "ok"
NetNoConn == "noconn"
NetLostResp == "lostresp"
NetUnavail == "unavail"
NetGarbled == "garbled"
WriteNets == {NetOK, NetNoConn, NetLostResp, NetUnavail}
ReadNets == {NetOK, NetNoConn, NetUnavail, NetGarbled}
Faults == {NetNoConn, NetLostResp, NetUnavail, NetGarbled}

HtmlPage == <<"<html>">>
NetErrResp == [neterr |-> TRUE, status |-> 0, content |-> <<>>]
HttpResp(status, content) ==
    [neterr |-> FALSE, status |-> status, content |-> content]

\* One exchange: srv is what the server would do with the request
\* ([reg, status, content]); garbage is the undecodable body of this endpoint.
Exchange(net, srv, reg, garbage) ==
    CASE net = NetOK -> [reg |-> srv.reg, resp |-> HttpResp(srv.status, srv.content)]
      [] net = NetNoConn -> [reg |-> reg, resp |-> NetErrResp]
      [] net = NetLostResp -> [reg |-> srv.reg, resp |-> NetErrResp]
      [] net = NetUnavail -> [reg |-> reg, resp |-> HttpResp(503, garbage)]
      [] net = NetGarbled -> [reg |-> srv.reg, resp |-> HttpResp(200, garbage)]

\* (a slip: the status of the response is not looked at)
DoIgnoresStatus(resp, statusMap, resToErr) ==
    IF resp.neterr THEN [body |-> <<>>, err |-> TransportErr]
    ELSE [body |-> resp.content, err |-> NoErr]

\* Nexus.Do: the body, or the error made from the status.
Do(resp, statusMap, resToErr) ==
    IF resp.neterr THEN [body |-> <<>>, err |-> TransportErr]
    ELSE IF resp.status >= 300
    THEN IF resToErr THEN [body |-> <<>>, err |-> BodyErr(resp.content)]
         ELSE IF resp.status \in DOMAIN statusMap
         THEN [body |-> <<>>, err |-> StatusErr(statusMap[resp.status])]
         ELSE [body |-> <<>>, err |-> SafetyBeltErr]
    ELSE [body |-> resp.content, err |-> NoErr]

NilStatusMap == <<>>

\* ------------------------------------------------------------------ server
\* The script endpoints of the Nexus server, by the statuses the client's
\* status maps name: 404 for a missing script, 500 for a create of a taken
\* name; a script without content does not pass the server's validation (400).
InvalidScriptJson == [valid |-> FALSE, name |-> "", content |-> ""]
ScriptJson(name, content) == [valid |-> TRUE, name |-> name, content |-> content]

ServerGet(reg, name) ==
    IF reg[name] = Absent
    THEN [reg |-> reg, status |-> 404, content |-> InvalidScriptJson]
    ELSE [reg |-> reg, status |-> 200, content |-> ScriptJson(name, reg[name])]

\* (a server without the uniqueness check: a create of a taken name
\* overwrites)
ServerCreateOverwrites(reg, script) ==
    IF script.content = EmptyContent
    THEN [reg |-> reg, status |-> 400, content |-> <<>>]
    ELSE [reg |-> [reg EXCEPT ![script.name] = script.content],
          status |-> 204, content |-> <<>>]

ServerCreate(reg, script) ==
    IF script.content = EmptyContent
    THEN [reg |-> reg, status |-> 400, content |-> <<>>]
    ELSE IF reg[script.name] # Absent
    THEN [reg |-> reg, status |-> 500, content |-> <<>>]
    ELSE [reg |-> [reg EXCEPT ![script.name] = script.content],
          status |-> 204, content |-> <<>>]

\* (a server that acknowledges an update without storing it)
ServerUpdateIgnores(reg, script) ==
    IF reg[script.name] = Absent
    THEN [reg |-> reg, status |-> 404, content |-> <<>>]
    ELSE [reg |-> reg, status |-> 204, content |-> <<>>]

ServerUpdate(reg, script) ==
    IF reg[script.name] = Absent
    THEN [reg |-> reg, status |-> 404, content |-> <<>>]
    ELSE [reg |-> [reg EXCEPT ![script.name] = script.content],
          status |-> 204, content |-> <<>>]

\* (a server that acknowledges a delete without removing the script)
ServerDeleteKeeps(reg, name) ==
    IF reg[name] = Absent
    THEN [reg |-> reg, status |-> 404, content |-> <<>>]
    ELSE [reg |-> reg, status |-> 204, content |-> <<>>]

ServerDelete(reg, name) ==
    IF reg[name] = Absent
    THEN [reg |-> reg, status |-> 404, content |-> <<>>]
    ELSE [reg |-> [reg EXCEPT ![name] = Absent], status |-> 204, content |-> <<>>]

\* What running a script can come to: it returns a text, it throws (the
\* endpoint answers with a failure status and the Execution Result holding
\* the exception text), or the endpoint fails with some other body.
OddBodies == {HtmlPage, <<"{", "}">>, <<"null">>, <<>>}
EngineOutcomes ==
    {[kind |-> k, text |-> t] : k \in {"return", "throw"}, t \in Texts}
        \cup {[kind |-> "odd", text |-> b] : b \in OddBodies}

ServerRun(reg, name, engine) ==
    IF reg[name] = Absent
    THEN [reg |-> reg, status |-> 404,
          content |-> IF engine.kind = "odd" THEN engine.text ELSE HtmlPage]
    ELSE CASE engine.kind = "return" ->
                  [reg |-> reg, status |-> 200,
                   content |-> ExecutionResultBody(engine.text)]
           [] engine.kind = "throw" ->
                  [reg |-> reg, status |-> 400,
                   content |-> ExecutionResultBody(engine.text)]
           [] engine.kind = "odd" ->
                  [reg |-> reg, status |-> 500, content |-> engine.text]

\* ------------------------------------------------------------------ client
NilScript == [name |-> "", content |-> NoContent]
MkScript(name, content) == [name |-> name, content |-> content]

\* Nexus.GetScript
GetScript(reg, name, net) ==
    LET x == Exchange(net, ServerGet(reg, name), reg, InvalidScriptJson)
        d == Do(x.resp, 404 :> "script_does_not_exist", FALSE)
    IN IF d.err # NoErr THEN [reg |-> x.reg, script |-> NilScript, err |-> d.err]
       ELSE IF ~d.body.valid
       THEN [reg |-> x.reg, script |-> NilScript, err |-> JsonErr]
       ELSE [reg |-> x.reg, script |-> MkScript(d.body.name, d.body.content),
             err |-> NoErr]

\* Nexus.CreateScript: sent tells whether a request left the client.
CreateScript(reg, script, net) ==
    IF script.name = "" \/ script.content = NoContent
    THEN [reg |-> reg, sent |-> FALSE, script |-> NilScript, err |-> InvalidArgErr]
    ELSE LET x == Exchange(net, ServerCreate(reg, script), reg, HtmlPage)
             d == Do(x.resp, 500 :> "script_already_exists", FALSE)
         IN [reg |-> x.reg, sent |-> TRUE,
             script |-> IF d.err = NoErr THEN script ELSE NilScript,
             err |-> d.err]

\* (a slip: the update is sent as the POST of a create)
UpdateScriptAsCreate(reg, script, net) ==
    IF script.name = "" \/ script.content = NoContent
    THEN [reg |-> reg, sent |-> FALSE, script |-> NilScript, err |-> InvalidArgErr]
    ELSE LET x == Exchange(net, ServerCreate(reg, script), reg, HtmlPage)
             d == Do(x.resp, 404 :> "script_does_not_exist", FALSE)
         IN [reg |-> x.reg, sent |-> TRUE,
             script |-> IF d.err = NoErr THEN script ELSE NilScript,
             err |-> d.err]

\* Nexus.UpdateScript
UpdateScript(reg, script, net) ==
    IF script.name = "" \/ script.content = NoContent
    THEN [reg |-> reg, sent |-> FALSE, script |-> NilScript, err |-> InvalidArgErr]
    ELSE LET x == Exchange(net, ServerUpdate(reg, script), reg, HtmlPage)
             d == Do(x.resp, 404 :> "script_does_not_exist", FALSE)
         IN [reg |-> x.reg, sent |-> TRUE,
             script |-> IF d.err = NoErr THEN script ELSE NilScript,
             err |-> d.err]

\* Nexus.DeleteScript
DeleteScript(reg, name, net) ==
    LET x == Exchange(net, ServerDelete(reg, name), reg, HtmlPage)
        d == Do(x.resp, 404 :> "script_does_not_exist", FALSE)
    IN [reg |-> x.reg, err |-> d.err]

\* marshalScriptArgs: nil sends no body, a struct marshals, a value
\* encoding/json cannot marshal (a channel) is an error.
ArgsNil == "nil"
ArgsStruct == "struct"
ArgsChan == "chan"
marshalScriptArgs(args) ==
    IF args = ArgsChan THEN [payload |-> "", err |-> MarshalErr]
    ELSE [payload |-> IF args = ArgsNil THEN "" ELSE "{}", err |-> NoErr]

\* (a slip: the failure body is returned as the error as Do made it, not
\* parsed)
ExecuteScriptRawBody(reg, name, args, net, engine) ==
    LET m == marshalScriptArgs(args)
        x == Exchange(net, ServerRun(reg, name, engine), reg, HtmlPage)
        d == Do(x.resp, NilStatusMap, TRUE)
        fromBody == UnmarshalResult(d.body)
    IN IF m.err # NoErr
       THEN [sent |-> FALSE, res |-> NilRes, err |-> m.err, panic |-> FALSE]
       ELSE IF d.err # NoErr
       THEN [sent |-> TRUE, res |-> NilRes, err |-> d.err, panic |-> FALSE]
       ELSE [sent |-> TRUE, res |-> fromBody.res, err |-> fromBody.err,
             panic |-> FALSE]

\* (a slip: the error of parsing the failure body is dropped, and the call
\* reports success with no result)
ExecuteScriptIgnoresParseError(reg, name, args, net, engine) ==
    LET m == marshalScriptArgs(args)
        x == Exchange(net, ServerRun(reg, name, engine), reg, HtmlPage)
        d == Do(x.resp, NilStatusMap, TRUE)
        fromErr == UnmarshalResult(d.err.msg)
        fromBody == UnmarshalResult(d.body)
    IN IF m.err # NoErr
       THEN [sent |-> FALSE, res |-> NilRes, err |-> m.err, panic |-> FALSE]
       ELSE IF d.err # NoErr
       THEN IF fromErr.err # NoErr
            THEN [sent |-> TRUE, res |-> NilRes, err |-> NoErr, panic |-> FALSE]
            ELSE IF fromErr.res.nil \/ ~fromErr.res.hasResult
            THEN [sent |-> TRUE, res |-> fromErr.res, err |-> NoErr, panic |-> TRUE]
            ELSE [sent |-> TRUE, res |-> fromErr.res,
                  err |-> ErrorsNew(fromErr.res.Result), panic |-> FALSE]
       ELSE [sent |-> TRUE, res |-> fromBody.res, err |-> fromBody.err,
             panic |-> FALSE]

\* Nexus.ExecuteScript: panic is the nil dereference of *res.Result.
ExecuteScript(reg, name, args, net, engine) ==
    LET m == marshalScriptArgs(args)
        x == Exchange(net, ServerRun(reg, name, engine), reg, HtmlPage)
        d == Do(x.resp, NilStatusMap, TRUE)
        fromErr == UnmarshalResult(d.err.msg)
        fromBody == UnmarshalResult(d.body)
    IN IF m.err # NoErr
       THEN [sent |-> FALSE, res |-> NilRes, err |-> m.err, panic |-> FALSE]
       ELSE IF d.err # NoErr
       THEN IF fromErr.err # NoErr
            THEN [sent |-> TRUE, res |-> fromErr.res, err |-> fromErr.err,
                  panic |-> FALSE]
            ELSE IF fromErr.res.nil \/ ~fromErr.res.hasResult
            THEN [sent |-> TRUE, res |-> fromErr.res, err |-> NoErr, panic |-> TRUE]
            ELSE [sent |-> TRUE, res |-> fromErr.res,
                  err |-> ErrorsNew(fromErr.res.Result), panic |-> FALSE]
       ELSE [sent |-> TRUE, res |-> fromBody.res, err |-> fromBody.err,
             panic |-> FALSE]


\* ------------------------------------------------------------------ state
VARIABLES
    registry,   \* the server's scripts: name -> content, or Absent
    active,     \* the callers that run in this behaviour
    quota,      \* the calls each of them makes
    engines,    \* what a run of a script may come to in this behaviour
    pc,         \* each caller's position in its call
    op,         \* "ensure": Script.ensureAndExecute, "ephemeral": EphemeralScript.Execute
    desired,    \* the receiver s of the call (s.Name, s.Content)
    args,       \* the args of the call
    script,     \* the local variable script
    res,        \* the result res
    err,        \* the result err
    panicking,  \* a panic is unwinding the call
    log,        \* the requests the current call has sent, in order
    regBefore,  \* the registry when the current call started
    lastExec,   \* the execute request of the call and what answered it
    ret,        \* what the last call returned, until the caller calls again
    ncalls,     \* the calls each caller has made
    hist,       \* the last calls that returned: what each was and sent
    \* the listing
    pages,      \* the server's pages: page i is [items, token], token 0 is absent
    lpc,        \* "call": a ListAssetsPages call is due, "returned"
    kind,       \* "assets" or "components"
    input,      \* the ContinuationToken of the input of the call due (0: nil)
    cbLog,      \* the calls of the callback so far
    assets,     \* the items the callback of cmd/list_assets.go has appended
    fetches,    \* the page requests sent so far
    retErr      \* what the traversal returned

scriptVars == <<registry, active, quota, engines, pc, op, desired, args, script, res, err,
                panicking, log, regBefore, lastExec, ret, ncalls, hist>>
pageVars == <<pages, lpc, kind, input, cbLog, assets, fetches, retErr>>
vars == <<registry, active, quota, engines, pc, op, desired, args, script, res, err,
          panicking, log, regBefore, lastExec, ret, ncalls, hist,
          pages, lpc, kind, input, cbLog, assets, fetches, retErr>>

\* a request in a call's log
\* (content: the content sent, for a get the content received, for an execute
\* the content the registry held; err: the kind of the error that came back)
LogEntry(o, name, content, net, e) ==
    [op |-> o, name |-> name, content |-> content, fault |-> net \in Faults,
     err |-> e.kind]

\* the registry before any call: the reconciled and the other script may be
\* there in any version, a uuid-named script is not
InitRegistries ==
    {r \in [Names -> Bodies \cup {Absent}] :
        /\ \A u \in Uuids : r[u] = Absent
        /\ \A o \in OtherNames : r[o] = "v1"}

\* what a call returned: nothing yet, or (res, err), or it died of a panic
NoRet == [returned |-> FALSE, res |-> NilRes, err |-> NoErr, panicked |-> FALSE]
Returned(r, e, panics) ==
    [returned |-> TRUE, res |-> r, err |-> e, panicked |-> panics]

\* the execute request of a call: none yet, or what it met
NoExec == [sent |-> FALSE, net |-> NetOK, found |-> FALSE,
           engine |-> [kind |-> "none", text |-> <<>>]]
ExecMet(sent, net, found, engine) ==
    [sent |-> sent, net |-> net, found |-> found, engine |-> engine]

ScriptInit(act, calls, engs) ==
    /\ registry \in InitRegistries
    /\ active = act
    /\ quota = calls
    /\ engines = engs
    /\ pc = [c \in Callers |-> "idle"]
    /\ op = [c \in Callers |-> "none"]
    /\ desired = [c \in Callers |-> NilScript]
    /\ args = [c \in Callers |-> ArgsNil]
    /\ script = [c \in Callers |-> NilScript]
    /\ res = [c \in Callers |-> NilRes]
    /\ err = [c \in Callers |-> NoErr]
    /\ panicking = [c \in Callers |-> FALSE]
    /\ log = [c \in Callers |-> <<>>]
    /\ regBefore = [c \in Callers |-> registry]
    /\ lastExec = [c \in Callers |-> NoExec]
    /\ ret = [c \in Callers |-> NoRet]
    /\ ncalls = [c \in Callers |-> 0]
    /\ hist = [c \in Callers |-> <<>>]

\* the history is kept for the call under way and the one before it
LastTwo(h) == IF Len(h) > 2 THEN Tail(h) ELSE h
LastOne(h) == IF Len(h) > 1 THEN Tail(h) ELSE h

\* the call of caller c returns r (res) and e (err), or dies of a panic
Return(c, r, e, panics, newLog) ==
    /\ ret' = [ret EXCEPT ![c] = Returned(r, e, panics)]
    /\ hist' = [hist EXCEPT ![c] = LastTwo(Append(@,
                   [op |-> op[c], desired |-> desired[c],
                    regBefore |-> regBefore[c], log |-> newLog]))]
    /\ UNCHANGED ncalls
    /\ pc' = [pc EXCEPT ![c] = IF panics THEN "panicked" ELSE "idle"]
    /\ op' = [op EXCEPT ![c] = "none"]
    /\ desired' = [desired EXCEPT ![c] = NilScript]
    /\ args' = [args EXCEPT ![c] = ArgsNil]
    /\ script' = [script EXCEPT ![c] = NilScript]
    /\ res' = [res EXCEPT ![c] = NilRes]
    /\ err' = [err EXCEPT ![c] = NoErr]
    /\ panicking' = [panicking EXCEPT ![c] = FALSE]
    /\ log' = [log EXCEPT ![c] = <<>>]
    /\ UNCHANGED regBefore

\* ------------------------------------------------------------------ ensureAndExecute
\* a caller of blobstores.go calls script.ensureAndExecute(args)
StartEnsure(c) ==
    /\ c \in active
    /\ pc[c] = "idle"
    /\ ncalls[c] < quota
    /\ ncalls' = [ncalls EXCEPT ![c] = @ + 1]
    /\ \E n \in ScriptNames, b \in Bodies, a \in {ArgsNil, ArgsStruct} :
          /\ desired' = [desired EXCEPT ![c] = MkScript(n, b)]
          /\ args' = [args EXCEPT ![c] = a]
    /\ op' = [op EXCEPT ![c] = "ensure"]
    /\ pc' = [pc EXCEPT ![c] = "get"]
    /\ regBefore' = [regBefore EXCEPT ![c] = registry]
    /\ ret' = [ret EXCEPT ![c] = NoRet]
    /\ lastExec' = [lastExec EXCEPT ![c] = NoExec]
    /\ hist' = [hist EXCEPT ![c] = LastOne(@)]
    /\ UNCHANGED <<registry, active, quota, engines, script, res, err, panicking, log>>
    /\ UNCHANGED pageVars

\* (two slips of the comparison: the test inverted, the test dropped)
ContentDiffersInverted(sc, s) == sc.content = s.content
ContentDiffersNever(sc, s) == FALSE

\* if *script.Content != *s.Content
ContentDiffers(sc, s) == sc.content # s.content

\* script, err := s.client.GetScript(*s.Name); if err != nil { create }
EnsureGet(c) ==
    /\ c \in active
    /\ pc[c] = "get"
    /\ \E net \in ReadNets :
          LET g == GetScript(registry, desired[c].name, net)
          IN /\ registry' = g.reg
             /\ log' = [log EXCEPT ![c] = Append(@,
                           LogEntry("get", desired[c].name, g.script.content, net, g.err))]
             /\ script' = [script EXCEPT ![c] = g.script]
             /\ err' = [err EXCEPT ![c] = g.err]
             /\ pc' = [pc EXCEPT ![c] =
                          IF g.err # NoErr THEN "create"
                          ELSE IF ContentDiffers(g.script, desired[c]) THEN "update"
                          ELSE "execute"]
    /\ UNCHANGED <<active, quota, engines, op, desired, args, res, panicking,
                   regBefore, lastExec, ret, ncalls, hist>>
    /\ UNCHANGED pageVars

\* (a variant: a create rejected because the name is taken is absorbed, and
\* the call goes on to the update)
EnsureCreateFallback(c) ==
    /\ c \in active
    /\ pc[c] = "create"
    /\ \E net \in WriteNets :
          LET r == CreateScript(registry, MkScript(desired[c].name, desired[c].content), net)
              newLog == IF r.sent
                        THEN Append(log[c], LogEntry("create", desired[c].name,
                                                     desired[c].content, net, r.err))
                        ELSE log[c]
          IN /\ registry' = r.reg
             /\ IF r.err # NoErr /\ r.err # StatusErr("script_already_exists")
                THEN Return(c, NilRes, r.err, FALSE, newLog) /\ UNCHANGED lastExec
                ELSE /\ log' = [log EXCEPT ![c] = newLog]
                     /\ script' = [script EXCEPT ![c] = desired[c]]
                     /\ err' = [err EXCEPT ![c] = r.err]
                     /\ pc' = [pc EXCEPT ![c] =
                                  IF r.err # NoErr THEN "update" ELSE "execute"]
                     /\ UNCHANGED <<op, desired, args, res, panicking, regBefore,
                                    lastExec, ret, ncalls, hist>>
    /\ UNCHANGED <<active, quota, engines>>
    /\ UNCHANGED pageVars

\* (a variant: the script just created is written once more by an update)
EnsureCreateThenUpdate(c) ==
    /\ c \in active
    /\ pc[c] = "create"
    /\ \E net \in WriteNets :
          LET r == CreateScript(registry, MkScript(desired[c].name, desired[c].content), net)
              newLog == IF r.sent
                        THEN Append(log[c], LogEntry("create", desired[c].name,
                                                     desired[c].content, net, r.err))
                        ELSE log[c]
          IN /\ registry' = r.reg
             /\ IF r.err # NoErr
                THEN Return(c, NilRes, r.err, FALSE, newLog) /\ UNCHANGED lastExec
                ELSE /\ log' = [log EXCEPT ![c] = newLog]
                     /\ script' = [script EXCEPT ![c] = r.script]
                     /\ err' = [err EXCEPT ![c] = r.err]
                     /\ pc' = [pc EXCEPT ![c] = "update"]
                     /\ UNCHANGED <<op, desired, args, res, panicking, regBefore,
                                    lastExec, ret, ncalls, hist>>
    /\ UNCHANGED <<active, quota, engines>>
    /\ UNCHANGED pageVars

\* script, err = s.client.CreateScript(...); if err != nil { return }
EnsureCreate(c) ==
    /\ c \in active
    /\ pc[c] = "create"
    /\ \E net \in WriteNets :
          LET r == CreateScript(registry, MkScript(desired[c].name, desired[c].content), net)
              newLog == IF r.sent
                        THEN Append(log[c], LogEntry("create", desired[c].name,
                                                     desired[c].content, net, r.err))
                        ELSE log[c]
          IN /\ registry' = r.reg
             /\ IF r.err # NoErr
                THEN Return(c, NilRes, r.err, FALSE, newLog) /\ UNCHANGED lastExec
                ELSE /\ log' = [log EXCEPT ![c] = newLog]
                     /\ script' = [script EXCEPT ![c] = r.script]
                     /\ err' = [err EXCEPT ![c] = r.err]
                     /\ pc' = [pc EXCEPT ![c] =
                                  IF ContentDiffers(r.script, desired[c])
                                  THEN "update" ELSE "execute"]
                     /\ UNCHANGED <<op, desired, args, res, panicking, regBefore,
                                    lastExec, ret, ncalls, hist>>
    /\ UNCHANGED <<active, quota, engines>>
    /\ UNCHANGED pageVars

\* (a slip: the error of the update is not checked)
EnsureUpdateUnchecked(c) ==
    /\ c \in active
    /\ pc[c] = "update"
    /\ \E net \in WriteNets :
          LET r == UpdateScript(registry, MkScript(desired[c].name, desired[c].content), net)
              newLog == IF r.sent
                        THEN Append(log[c], LogEntry("update", desired[c].name,
                                                     desired[c].content, net, r.err))
                        ELSE log[c]
          IN /\ registry' = r.reg
             /\ log' = [log EXCEPT ![c] = newLog]
             /\ script' = [script EXCEPT ![c] = desired[c]]
             /\ err' = [err EXCEPT ![c] = r.err]
             /\ pc' = [pc EXCEPT ![c] = "execute"]
             /\ UNCHANGED <<op, desired, args, res, panicking, regBefore,
                            lastExec, ret, ncalls, hist>>
    /\ UNCHANGED <<active, quota, engines>>
    /\ UNCHANGED pageVars

\* script, err = s.client.UpdateScript(...); if err != nil { return }
EnsureUpdate(c) ==
    /\ c \in active
    /\ pc[c] = "update"
    /\ \E net \in WriteNets :
          LET r == UpdateScript(registry, MkScript(desired[c].name, desired[c].content), net)
              newLog == IF r.sent
                        THEN Append(log[c], LogEntry("update", desired[c].name,
                                                     desired[c].content, net, r.err))
                        ELSE log[c]
          IN /\ registry' = r.reg
             /\ IF r.err # NoErr
                THEN Return(c, NilRes, r.err, FALSE, newLog) /\ UNCHANGED lastExec
                ELSE /\ log' = [log EXCEPT ![c] = newLog]
                     /\ script' = [script EXCEPT ![c] = r.script]
                     /\ err' = [err EXCEPT ![c] = r.err]
                     /\ pc' = [pc EXCEPT ![c] = "execute"]
                     /\ UNCHANGED <<op, desired, args, res, panicking, regBefore,
                                    lastExec, ret, ncalls, hist>>
    /\ UNCHANGED <<active, quota, engines>>
    /\ UNCHANGED pageVars

\* what an execute request can meet: the engine, when the request and its
\* answer get through, or a fault of the transport
NoEngine == [kind |-> "none", text |-> <<>>]
ExecMeetings(engs) ==
    {[net |-> NetOK, engine |-> e] : e \in engs}
        \cup {[net |-> n, engine |-> NoEngine] : n \in {NetNoConn, NetUnavail}}

\* res, err = script.Execute(args); return
EnsureExecute(c) ==
    /\ c \in active
    /\ pc[c] = "execute"
    /\ \E m \in ExecMeetings(engines) :
          LET net == m.net
              engine == m.engine
              r == ExecuteScript(registry, script[c].name, args[c], net, engine)
              newLog == IF r.sent
                        THEN Append(log[c], LogEntry("execute", script[c].name,
                                                     registry[script[c].name], net, r.err))
                        ELSE log[c]
          IN /\ lastExec' = [lastExec EXCEPT ![c] =
                    ExecMet(r.sent, net, registry[script[c].name] # Absent, engine)]
             /\ Return(c, r.res, r.err, r.panic, newLog)
    /\ UNCHANGED <<registry, active, quota, engines>>
    /\ UNCHANGED pageVars


\* ------------------------------------------------------------------ EphemeralScript.Execute
\* a caller (cmd/groovy_exec.go) calls NewEphemeralScript(script).Execute(args);
\* only the Content of script is expected, and it may be left nil or empty
StartEphemeral(c) ==
    /\ c \in active
    /\ pc[c] = "idle"
    /\ ncalls[c] < quota
    /\ ncalls' = [ncalls EXCEPT ![c] = @ + 1]
    /\ \E b \in Bodies \cup {NoContent, EmptyContent},
          a \in {ArgsNil, ArgsStruct, ArgsChan} :
          /\ desired' = [desired EXCEPT ![c] = MkScript("", b)]
          /\ args' = [args EXCEPT ![c] = a]
    /\ op' = [op EXCEPT ![c] = "ephemeral"]
    /\ pc' = [pc EXCEPT ![c] = "ecreate"]
    /\ regBefore' = [regBefore EXCEPT ![c] = registry]
    /\ ret' = [ret EXCEPT ![c] = NoRet]
    /\ lastExec' = [lastExec EXCEPT ![c] = NoExec]
    /\ hist' = [hist EXCEPT ![c] = LastOne(@)]
    /\ UNCHANGED <<registry, active, quota, engines, script, res, err, panicking, log>>
    /\ UNCHANGED pageVars

\* script, err := CreateScript(&Script{Name: String(uuid.New().String()), ...});
\* if err != nil { return }; defer script.Delete()
EphemeralCreate(c) ==
    /\ c \in active
    /\ pc[c] = "ecreate"
    /\ \E u \in Uuids, net \in WriteNets :
          LET r == CreateScript(registry, MkScript(u, desired[c].content), net)
              newLog == IF r.sent
                        THEN Append(log[c], LogEntry("create", u, desired[c].content,
                                                     net, r.err))
                        ELSE log[c]
          IN /\ registry' = r.reg
             /\ IF r.err # NoErr
                THEN Return(c, NilRes, r.err, FALSE, newLog) /\ UNCHANGED lastExec
                ELSE /\ log' = [log EXCEPT ![c] = newLog]
                     /\ script' = [script EXCEPT ![c] = r.script]
                     /\ err' = [err EXCEPT ![c] = r.err]
                     /\ pc' = [pc EXCEPT ![c] = "eexecute"]
                     /\ UNCHANGED <<op, desired, args, res, panicking, regBefore,
                                    lastExec, ret, ncalls, hist>>
    /\ UNCHANGED <<active, quota, engines>>
    /\ UNCHANGED pageVars

\* (a slip: no defer, the delete follows a successful Execute only)
EphemeralExecuteNoDefer(c) ==
    /\ c \in active
    /\ pc[c] = "eexecute"
    /\ \E m \in ExecMeetings(engines) :
          LET net == m.net
              engine == m.engine
              r == ExecuteScript(registry, script[c].name, args[c], net, engine)
              newLog == IF r.sent
                        THEN Append(log[c], LogEntry("execute", script[c].name,
                                                     registry[script[c].name], net, r.err))
                        ELSE log[c]
          IN /\ lastExec' = [lastExec EXCEPT ![c] =
                    ExecMet(r.sent, net, registry[script[c].name] # Absent, engine)]
             /\ IF r.err # NoErr \/ r.panic
                THEN Return(c, r.res, r.err, r.panic, newLog)
                ELSE /\ log' = [log EXCEPT ![c] = newLog]
                     /\ res' = [res EXCEPT ![c] = r.res]
                     /\ err' = [err EXCEPT ![c] = r.err]
                     /\ panicking' = [panicking EXCEPT ![c] = r.panic]
                     /\ pc' = [pc EXCEPT ![c] = "edelete"]
                     /\ UNCHANGED <<op, desired, args, script, regBefore, ret,
                                    ncalls, hist>>
    /\ UNCHANGED <<registry, active, quota, engines>>
    /\ UNCHANGED pageVars

\* (a slip: script.Delete() is called at once instead of deferred, so the
\* delete goes out before the execute)
EphemeralExecuteDeletesFirst(c) ==
    /\ c \in active
    /\ pc[c] = "eexecute"
    /\ \E dnet \in WriteNets, m \in ExecMeetings(engines) :
          LET d == DeleteScript(registry, script[c].name, dnet)
              r == ExecuteScript(d.reg, script[c].name, args[c], m.net, m.engine)
              delLog == Append(log[c], LogEntry("delete", script[c].name, NoContent,
                                                dnet, d.err))
              newLog == IF r.sent
                        THEN Append(delLog, LogEntry("execute", script[c].name,
                                                     d.reg[script[c].name], m.net, r.err))
                        ELSE delLog
          IN /\ registry' = d.reg
             /\ lastExec' = [lastExec EXCEPT ![c] =
                    ExecMet(r.sent, m.net, d.reg[script[c].name] # Absent, m.engine)]
             /\ Return(c, r.res, r.err, r.panic, newLog)
    /\ UNCHANGED <<active, quota, engines>>
    /\ UNCHANGED pageVars

\* res, err = script.Execute(args); return (the deferred Delete is due)
EphemeralExecute(c) ==
    /\ c \in active
    /\ pc[c] = "eexecute"
    /\ \E m \in ExecMeetings(engines) :
          LET net == m.net
              engine == m.engine
              r == ExecuteScript(registry, script[c].name, args[c], net, engine)
          IN /\ log' = [log EXCEPT ![c] =
                           IF r.sent
                           THEN Append(@, LogEntry("execute", script[c].name,
                                                   registry[script[c].name], net, r.err))
                           ELSE @]
             /\ res' = [res EXCEPT ![c] = r.res]
             /\ err' = [err EXCEPT ![c] = r.err]
             /\ panicking' = [panicking EXCEPT ![c] = r.panic]
             /\ lastExec' = [lastExec EXCEPT ![c] =
                    ExecMet(r.sent, net, registry[script[c].name] # Absent, engine)]
    /\ pc' = [pc EXCEPT ![c] = "edelete"]
    /\ UNCHANGED <<registry, active, quota, engines, op, desired, args, script,
                   regBefore, ret, ncalls, hist>>
    /\ UNCHANGED pageVars

\* (a slip: the error of the deferred Delete is assigned to the named result
\* err when Execute left none)
EphemeralDeleteReportsError(c) ==
    /\ c \in active
    /\ pc[c] = "edelete"
    /\ \E net \in WriteNets :
          LET r == DeleteScript(registry, script[c].name, net)
          IN /\ registry' = r.reg
             /\ Return(c, res[c], IF err[c] = NoErr THEN r.err ELSE err[c],
                       panicking[c],
                       Append(log[c], LogEntry("delete", script[c].name, NoContent,
                                               net, r.err)))
             /\ UNCHANGED lastExec
    /\ UNCHANGED <<active, quota, engines>>
    /\ UNCHANGED pageVars

\* the deferred script.Delete(): its error is dropped, the call returns what
\* Execute left in res and err, or goes on panicking
EphemeralDelete(c) ==
    /\ c \in active
    /\ pc[c] = "edelete"
    /\ \E net \in WriteNets :
          LET r == DeleteScript(registry, script[c].name, net)
          IN /\ registry' = r.reg
             /\ Return(c, res[c], err[c], panicking[c],
                       Append(log[c], LogEntry("delete", script[c].name, NoContent,
                                               net, r.err)))
             /\ UNCHANGED lastExec
    /\ UNCHANGED <<active, quota, engines>>
    /\ UNCHANGED pageVars

\* ------------------------------------------------------------------ specifications
EnsureStep(c) ==
    \/ StartEnsure(c)
    \/ EnsureGet(c)
    \/ EnsureCreate(c)
    \/ EnsureUpdate(c)
    \/ EnsureExecute(c)

EphemeralStep(c) ==
    \/ StartEphemeral(c)
    \/ EphemeralCreate(c)
    \/ EphemeralExecute(c)
    \/ EphemeralDelete(c)

\* ------------------------------------------------------------------ listings
\* A listing server holds pages 1..N; a request without a token is answered
\* with page 1, a request with token t with page t; token 0 stands for an
\* absent continuationToken. The server may hand out any token.
PageItems == {<<>>, <<"a", "b">>, <<"c">>}
ServersOf(n) == [1..n -> [items : PageItems, token : 0..n]]
Servers == UNION {ServersOf(n) : n \in 1..MaxPages}

NoRepo == "nil"           \* a nil *string Repository
Repos == {"my-repo"}      \* the repositories of the server
InputRepos == {NoRepo, "my-repo", "gone"}
NilPage == [items |-> <<>>, token |-> 0]
HandlerErr == [kind |-> "handler", msg |-> <<"stop">>]
HandlerReturns == [cont : BOOLEAN, err : {NoErr, HandlerErr}]

\* GET service/rest/v1/assets (and /components)
ServerList(pgs, repo, token) ==
    IF repo \notin Repos
    THEN [reg |-> pgs, status |-> 404, content |-> [valid |-> FALSE, page |-> NilPage]]
    ELSE [reg |-> pgs, status |-> 200,
          content |-> [valid |-> TRUE,
                       page |-> pgs[IF token = 0 THEN 1 ELSE token]]]

\* Nexus.ListAssets
ListAssets(pgs, in, net) ==
    IF in.repo = NoRepo
    THEN [sent |-> FALSE, res |-> NilPage, err |-> InvalidArgErr]
    ELSE LET x == Exchange(net, ServerList(pgs, in.repo, in.token), pgs,
                           [valid |-> FALSE, page |-> NilPage])
             d == Do(x.resp, (403 :> "insufficient_permissions")
                                 @@ (404 :> "repository_does_not_exist"), FALSE)
         IN IF d.err # NoErr
            THEN [sent |-> TRUE, res |-> NilPage, err |-> d.err]
            ELSE IF ~d.body.valid
            THEN [sent |-> TRUE, res |-> NilPage, err |-> JsonErr]
            ELSE [sent |-> TRUE, res |-> d.body.page, err |-> NoErr]

\* Nexus.ListComponents
ListComponents(pgs, in, net) ==
    IF in.repo = NoRepo
    THEN [sent |-> FALSE, res |-> NilPage, err |-> InvalidArgErr]
    ELSE LET x == Exchange(net, ServerList(pgs, in.repo, in.token), pgs,
                           [valid |-> FALSE, page |-> NilPage])
             d == Do(x.resp, (403 :> "insufficient_permissions")
                                 @@ (404 :> "repository_does_not_exist"), FALSE)
         IN IF d.err # NoErr
            THEN [sent |-> TRUE, res |-> NilPage, err |-> d.err]
            ELSE IF ~d.body.valid
            THEN [sent |-> TRUE, res |-> NilPage, err |-> JsonErr]
            ELSE [sent |-> TRUE, res |-> d.body.page, err |-> NoErr]

PageInit ==
    /\ pages \in Servers
    /\ lpc = "idle"
    /\ kind = "none"
    /\ input = [repo |-> NoRepo, token |-> 0]
    /\ cbLog = <<>>
    /\ assets = <<>>
    /\ fetches = 0
    /\ retErr = NoErr

\* a caller (cmd/list_assets.go) calls ListAssetsPages or ListComponentsPages
\* with an input that names a repository and no token
StartListing ==
    /\ lpc = "idle"
    /\ \E k \in {"assets", "components"}, r \in InputRepos :
          /\ kind' = k
          /\ input' = [repo |-> r, token |-> 0]
    /\ lpc' = "call"
    /\ UNCHANGED <<pages, cbLog, assets, fetches, retErr>>
    /\ UNCHANGED scriptVars

\* (a slip of the callback: the page's items are put in front)
CallbackPrepends(page, last, h) ==
    /\ cbLog' = Append(cbLog, [fetch |-> fetches + 1, items |-> page.items,
                               token |-> page.token, last |-> last,
                               cont |-> h.cont, err |-> h.err])
    /\ assets' = page.items \o assets

\* the callback: it appends the page's items (cmd/list_assets.go) and
\* returns h
Callback(page, last, h) ==
    /\ cbLog' = Append(cbLog, [fetch |-> fetches + 1, items |-> page.items,
                               token |-> page.token, last |-> last,
                               cont |-> h.cont, err |-> h.err])
    /\ assets' = assets \o page.items

\* (two slips: the nil test of the token inverted, the test dropped)
IsLastInverted(r) == r.token # 0
IsLastNever(r) == FALSE

\* res.ContinuationToken == nil
IsLast(r) == r.token = 0

\* (a slip: the input is passed on as it came, without the new token)
NextInputKeepsToken(in, r) == in

\* newInput: the same repository, the token of the page just fetched
NextInput(in, r) == [repo |-> in.repo, token |-> r.token]

\* (a slip: the cont flag of the callback is not looked at)
PagesCallIgnoresCont(f) ==
    /\ fetches' = IF f.sent THEN fetches + 1 ELSE fetches
    /\ IF f.err # NoErr
       THEN /\ retErr' = f.err
            /\ lpc' = "returned"
            /\ UNCHANGED <<input, cbLog, assets>>
       ELSE IF IsLast(f.res)
       THEN \E h \in HandlerReturns :
               /\ Callback(f.res, TRUE, h)
               /\ retErr' = h.err
               /\ lpc' = "returned"
               /\ UNCHANGED input
       ELSE \E h \in HandlerReturns :
               /\ Callback(f.res, FALSE, h)
               /\ IF h.err # NoErr
                  THEN /\ retErr' = h.err
                       /\ lpc' = "returned"
                       /\ UNCHANGED input
                  ELSE /\ input' = NextInput(input, f.res)
                       /\ lpc' = "call"
                       /\ UNCHANGED retErr
    /\ UNCHANGED <<pages, kind>>
    /\ UNCHANGED scriptVars

\* (a slip: the cont flag of the callback is looked at before its error)
PagesCallContFirst(f) ==
    /\ fetches' = IF f.sent THEN fetches + 1 ELSE fetches
    /\ IF f.err # NoErr
       THEN /\ retErr' = f.err
            /\ lpc' = "returned"
            /\ UNCHANGED <<input, cbLog, assets>>
       ELSE IF IsLast(f.res)
       THEN \E h \in HandlerReturns :
               /\ Callback(f.res, TRUE, h)
               /\ retErr' = h.err
               /\ lpc' = "returned"
               /\ UNCHANGED input
       ELSE \E h \in HandlerReturns :
               /\ Callback(f.res, FALSE, h)
               /\ IF h.cont
                  THEN /\ input' = NextInput(input, f.res)
                       /\ lpc' = "call"
                       /\ UNCHANGED retErr
                  ELSE /\ retErr' = h.err
                       /\ lpc' = "returned"
                       /\ UNCHANGED input
    /\ UNCHANGED <<pages, kind>>
    /\ UNCHANGED scriptVars

\* one call of the recursion, from its fetch to its return or its recursive
\* call: f is what the fetch came to
PagesCall(f) ==
    /\ fetches' = IF f.sent THEN fetches + 1 ELSE fetches
    /\ IF f.err # NoErr
       THEN /\ retErr' = f.err
            /\ lpc' = "returned"
            /\ UNCHANGED <<input, cbLog, assets>>
       ELSE IF IsLast(f.res)
       THEN \E h \in HandlerReturns :
               /\ Callback(f.res, TRUE, h)
               /\ retErr' = h.err
               /\ lpc' = "returned"
               /\ UNCHANGED input
       ELSE \E h \in HandlerReturns :
               /\ Callback(f.res, FALSE, h)
               /\ IF h.err # NoErr
                  THEN /\ retErr' = h.err
                       /\ lpc' = "returned"
                       /\ UNCHANGED input
                  ELSE IF ~h.cont
                  THEN /\ retErr' = NoErr
                       /\ lpc' = "returned"
                       /\ UNCHANGED input
                  ELSE /\ input' = NextInput(input, f.res)
                       /\ lpc' = "call"
                       /\ UNCHANGED retErr
    /\ UNCHANGED <<pages, kind>>
    /\ UNCHANGED scriptVars

\* Nexus.ListAssetsPages
ListAssetsPages ==
    /\ lpc = "call"
    /\ kind = "assets"
    /\ fetches < MaxFetches
    /\ \E net \in ReadNets : PagesCall(ListAssets(pages, input, net))

\* Nexus.ListComponentsPages
ListComponentsPages ==
    /\ lpc = "call"
    /\ kind = "components"
    /\ fetches < MaxFetches
    /\ \E net \in ReadNets : PagesCall(ListComponents(pages, input, net))

PageIdle ==
    /\ pages = <<>>
    /\ lpc = "returned"
    /\ kind = "none"
    /\ input = [repo |-> NoRepo, token |-> 0]
    /\ cbLog = <<>>
    /\ assets = <<>>
    /\ fetches = 0
    /\ retErr = NoErr

ScriptIdle ==
    /\ ScriptInit({}, 0, {})
    /\ registry = [n \in Names |-> IF n \in OtherNames THEN "v1" ELSE Absent]

Init == ScriptInit({1}, MaxCalls, EngineOutcomes) /\ PageIdle

Next == \E c \in Callers : EnsureStep(c) \/ EphemeralStep(c)

\* one caller, one call after the other
Spec == Init /\ [][Next]_vars

\* the races are on the registry: one result text, one exception text and one
\* odd failure body stand for the engine
ConcEngines ==
    {[kind |-> "return", text |-> <<>>], [kind |-> "throw", text |-> <<"a">>],
     [kind |-> "odd", text |-> HtmlPage]}

ConcInit == ScriptInit({1, 2}, 1, ConcEngines) /\ PageIdle

\* two callers of ensureAndExecute, one call each, interleaved at the requests
ConcNext == \E c \in Callers : EnsureStep(c)

ConcSpec == ConcInit /\ [][ConcNext]_vars

PagesInit == ScriptIdle /\ PageInit

PagesNext == StartListing \/ ListAssetsPages \/ ListComponentsPages

\* one traversal of a listing
PagesSpec == PagesInit /\ [][PagesNext]_vars

\* termination does not depend on the items of the pages: the servers whose
\* pages are empty stand for all
LivePagesInit == PagesInit /\ \A p \in DOMAIN pages : pages[p].items = <<>>

\* a traversal that was called runs on: the code is sequential and neither
\* waits nor yields between its fetches
LivePagesSpec ==
    /\ LivePagesInit
    /\ [][PagesNext]_vars
    /\ WF_vars(ListAssetsPages)
    /\ WF_vars(ListComponentsPages)


\* ------------------------------------------------------------------ properties
Count(lg, o) == Cardinality({i \in DOMAIN lg : lg[i].op = o})
Records(c) == {hist[c][i] : i \in DOMAIN hist[c]}
EnsureRecords(c) == {h \in Records(c) : h.op = "ensure"}
EphemeralRecords(c) == {h \in Records(c) : h.op = "ephemeral"}
\* the record of the call whose return ret[c] holds
LastRecord(c) == hist[c][Len(hist[c])]
\* no get, create or update of the call met a fault of the transport
CleanReconcile(h) ==
    \A i \in DOMAIN h.log :
        h.log[i].op \in {"get", "create", "update"} => ~h.log[i].fault
\* the get of the call succeeded
GetSucceeded(lg) == Len(lg) >= 1 /\ lg[1].op = "get" /\ lg[1].err = "nil"

\* C1: from a registry without desired.name, two consecutive calls of
\* ensureAndExecute with the same desired script by one caller, whose
\* get/create/update requests met no transport fault, send: the first one
\* create and no update, the second no create and no update; each sends
\* one execute.
C1_TwoCalls(c) ==
    /\ Len(hist[c]) = 2
    /\ hist[c][1].op = "ensure"
    /\ hist[c][2].op = "ensure"
    /\ hist[c][1].desired = hist[c][2].desired
    /\ hist[c][1].regBefore[hist[c][1].desired.name] = Absent
    /\ CleanReconcile(hist[c][1])
    /\ CleanReconcile(hist[c][2])

C1_Counts(c) ==
    /\ Count(hist[c][1].log, "create") = 1
    /\ Count(hist[c][1].log, "update") = 0
    /\ Count(hist[c][1].log, "execute") = 1
    /\ Count(hist[c][2].log, "create") = 0
    /\ Count(hist[c][2].log, "update") = 0
    /\ Count(hist[c][2].log, "execute") = 1

C1_IdempotentReconciliation ==
    \A c \in Callers : C1_TwoCalls(c) => C1_Counts(c)

C1_Witness == C1_TwoCalls(1) /\ C1_Counts(1)

\* C2: in ensureAndExecute, when the get succeeds and the content it brings
\* differs from desired.content, exactly one update carrying desired.content
\* is sent, right after the get and before any execute; when the contents
\* are equal no update is sent.
C2_Drift(h) == GetSucceeded(h.log) /\ h.log[1].content # h.desired.content
C2_Same(h) == GetSucceeded(h.log) /\ h.log[1].content = h.desired.content
C2_UpdateSecond(lg, d) ==
    /\ Len(lg) >= 2
    /\ lg[2].op = "update"
    /\ lg[2].name = d.name
    /\ lg[2].content = d.content

C2_DriftTriggersUpdate ==
    \A c \in Callers :
        /\ \A h \in EnsureRecords(c) :
              /\ C2_Drift(h) =>
                    /\ C2_UpdateSecond(h.log, h.desired)
                    /\ Count(h.log, "update") = 1
                    /\ \A i \in DOMAIN h.log : h.log[i].op = "execute" => i > 2
              /\ C2_Same(h) => Count(h.log, "update") = 0
        /\ (op[c] = "ensure" /\ pc[c] = "execute" /\ GetSucceeded(log[c])) =>
              IF log[c][1].content # desired[c].content
              THEN C2_UpdateSecond(log[c], desired[c]) /\ Count(log[c], "update") = 1
              ELSE Count(log[c], "update") = 0

C2_Witness ==
    \E h \in EnsureRecords(1) :
        /\ C2_Drift(h)
        /\ Len(h.log) = 3
        /\ h.log[2].op = "update"
        /\ h.log[3].op = "execute"

\* C3: in EphemeralScript.Execute, if the create succeeded then, whatever
\* the invoke step came to, exactly one delete of the created name is sent;
\* if the create failed, no delete and no execute is sent.
C3_Created(h) ==
    \E i \in DOMAIN h.log : h.log[i].op = "create" /\ h.log[i].err = "nil"

C3_EphemeralCleanup ==
    \A c \in Callers : \A h \in EphemeralRecords(c) :
        IF C3_Created(h)
        THEN /\ Count(h.log, "delete") = 1
             /\ \A i, j \in DOMAIN h.log :
                   (h.log[i].op = "create" /\ h.log[j].op = "delete")
                       => h.log[i].name = h.log[j].name
        ELSE Count(h.log, "delete") = 0 /\ Count(h.log, "execute") = 0

C3_Witness ==
    /\ ret[1].returned
    /\ Len(hist[1]) >= 1
    /\ LastRecord(1).op = "ephemeral"
    /\ C3_Created(LastRecord(1))
    /\ ret[1].err.kind = "new"
    /\ Count(LastRecord(1).log, "delete") = 1


\* the server's pages form a chain: each page's token leads to the next page
\* and only the last page has none
NumPages == Cardinality(DOMAIN pages)
LinearChain ==
    \A i \in DOMAIN pages : pages[i].token = IF i < NumPages THEN i + 1 ELSE 0
\* every call of the callback so far returned (true, nil)
AlwaysContinue ==
    \A i \in DOMAIN cbLog : cbLog[i].cont /\ cbLog[i].err = NoErr
\* the traversal of a chain returned, no fetch failed and the callback always
\* returned (true, nil)
CompleteTraversal ==
    /\ lpc = "returned"
    /\ retErr = NoErr
    /\ LinearChain
    /\ AlwaysContinue

\* C4: over a chain of N pages, with a callback that always returns
\* (true, nil), ListAssetsPages / ListComponentsPages calls the callback N
\* times, once per fetched page, with last false on all calls but the N-th.
C4_PaginationTermination ==
    CompleteTraversal =>
        /\ Len(cbLog) = NumPages
        /\ fetches = NumPages
        /\ \A i \in DOMAIN cbLog :
              /\ cbLog[i].fetch = i
              /\ cbLog[i].last = (i = NumPages)

C4_Witness ==
    /\ CompleteTraversal
    /\ NumPages = 3
    /\ Len(cbLog) = 3
    /\ kind = "components"

\* C5: when the callback returns (false, nil) on a page that has a token, the
\* traversal returns nil, fetches nothing more and does not call the
\* callback again.
C5_StopsHere(i) == ~cbLog[i].cont /\ cbLog[i].err = NoErr /\ ~cbLog[i].last

C5_EarlyStopHonored ==
    \A i \in DOMAIN cbLog :
        C5_StopsHere(i) =>
            /\ i = Len(cbLog)
            /\ lpc = "returned"
            /\ retErr = NoErr
            /\ fetches = cbLog[i].fetch

C5_Witness ==
    /\ Len(cbLog) = 2
    /\ C5_StopsHere(2)
    /\ lpc = "returned"
    /\ NumPages = 3
    /\ LinearChain

\* C6: when the execute endpoint answers a failure status with the Execution
\* Result of an exception text, the call returns an error whose message is
\* exactly that text (ExecuteScript, and through it ensureAndExecute and
\* EphemeralScript.Execute).
C6_Threw(c) ==
    /\ ret[c].returned
    /\ lastExec[c].sent
    /\ lastExec[c].net = NetOK
    /\ lastExec[c].found
    /\ lastExec[c].engine.kind = "throw"

C6_ErrorBodyRoundTrip ==
    \A c \in Callers :
        C6_Threw(c) =>
            /\ ~ret[c].panicked
            /\ ret[c].err # NoErr
            /\ ret[c].err.msg = lastExec[c].engine.text

C6_Witness ==
    /\ C6_Threw(1)
    /\ lastExec[1].engine.text = <<QUOTE>>
    /\ ret[1].err.msg = <<QUOTE>>
    /\ LastRecord(1).op = "ensure"

RECURSIVE ItemsUpTo(_)
ItemsUpTo(n) == IF n = 0 THEN <<>> ELSE ItemsUpTo(n - 1) \o pages[n].items

\* C7: with a callback that appends each page's items and returns
\* (true, nil), the items gathered over a complete traversal of a chain are
\* the items of pages 1..N in page order, each page's in the server's order;
\* the callback sees page i on its i-th call.
C7_ItemsInPageOrder ==
    CompleteTraversal =>
        /\ assets = ItemsUpTo(NumPages)
        /\ Len(cbLog) = NumPages
        /\ \A i \in DOMAIN cbLog : cbLog[i].items = pages[i].items

C7_Witness ==
    /\ CompleteTraversal
    /\ kind = "assets"
    /\ NumPages = 2
    /\ pages[1].items = <<"a", "b">>
    /\ pages[2].items = <<"c">>
    /\ assets = <<"a", "b", "c">>

\* the logs of the ensureAndExecute calls of caller c: of the call under way
\* and of the calls kept
EnsureLogs(c) ==
    (IF op[c] = "ensure" THEN {log[c]} ELSE {}) \cup {h.log : h \in EnsureRecords(c)}

\* the get failed, and not with the 404 of a missing script
C8_GetFaulted(lg) == Len(lg) >= 1 /\ lg[1].op = "get" /\ lg[1].fault
\* the get was answered 404
C8_GetNotFound(lg) ==
    Len(lg) >= 1 /\ lg[1].op = "get" /\ lg[1].err = "status" /\ ~lg[1].fault

\* C8: in ensureAndExecute a create is sent only after a get that failed
\* with NotFound; when the get fails for another reason (transport failure,
\* other status, undecodable answer) that failure is returned and nothing
\* more is sent.
C8_CreateOnlyAfterNotFound ==
    \A c \in Callers :
        /\ \A lg \in EnsureLogs(c) :
              /\ C8_GetFaulted(lg) => Len(lg) = 1
              /\ Count(lg, "create") > 0 => C8_GetNotFound(lg)
        /\ \A h \in EnsureRecords(c) :
              (C8_GetFaulted(h.log) /\ ret[c].returned /\ h = LastRecord(c))
                  => ret[c].err.kind = h.log[1].err

\* C9: in ensureAndExecute, when the create or the update fails, that
\* failure is returned and no execute is sent in that call.
C9_FailedAt(h, i) ==
    h.log[i].op \in {"create", "update"} /\ h.log[i].err # "nil"

C9_ReconcileFailurePropagates ==
    \A c \in Callers : \A h \in EnsureRecords(c) : \A i \in DOMAIN h.log :
        C9_FailedAt(h, i) =>
            /\ i = Len(h.log)
            /\ Count(h.log, "execute") = 0
            /\ (ret[c].returned /\ h = LastRecord(c)) =>
                  /\ ret[c].err.kind = h.log[i].err
                  /\ ret[c].res = NilRes
                  /\ ~ret[c].panicked

C9_Witness ==
    /\ ret[1].returned
    /\ Len(hist[1]) >= 1
    /\ LastRecord(1).op = "ensure"
    /\ Len(LastRecord(1).log) = 2
    /\ GetSucceeded(LastRecord(1).log)
    /\ C9_FailedAt(LastRecord(1), 2)
    /\ LastRecord(1).log[2].op = "update"
    /\ ret[1].err = TransportErr

\* a get answered 404 and then a create answered "already exists": the name
\* was taken between the two
C10_Raced(h) ==
    /\ Len(h.log) >= 2
    /\ h.log[1].op = "get" /\ h.log[1].err = "status" /\ ~h.log[1].fault
    /\ h.log[2].op = "create" /\ h.log[2].err = "status" /\ ~h.log[2].fault

EphemeralLogs(c) ==
    (IF op[c] = "ephemeral" THEN {log[c]} ELSE {}) \cup {h.log : h \in EphemeralRecords(c)}

\* lg is a beginning of create, execute, delete or, when no execute request
\* left the client, of create, delete
C11_InOrder(lg) ==
    /\ Len(lg) <= 3
    /\ Len(lg) >= 1 => lg[1].op = "create"
    /\ Len(lg) = 2 => lg[2].op \in {"execute", "delete"}
    /\ Len(lg) = 3 => lg[2].op = "execute" /\ lg[3].op = "delete"

\* C11: an EphemeralScript.Execute call whose create succeeded sends its
\* requests in the order create, execute, delete: the execute after the
\* create, the delete after the execute and as the last request of the call
\* (when the args cannot be marshalled no execute request is sent, and the
\* delete follows the create).
C11_CreateExecuteDelete ==
    \A c \in Callers :
        /\ \A lg \in EphemeralLogs(c) : C11_InOrder(lg)
        /\ \A h \in EphemeralRecords(c) :
              C3_Created(h) =>
                  /\ h.log[Len(h.log)].op = "delete"
                  /\ (ret[c].returned /\ h = LastRecord(c) /\ lastExec[c].sent)
                        => Len(h.log) = 3
        /\ (op[c] = "ephemeral" /\ pc[c] = "edelete") =>
              IF args[c] = ArgsChan THEN Len(log[c]) = 1
              ELSE Len(log[c]) = 2 /\ log[c][2].op = "execute"

C11_Witness ==
    /\ ret[1].returned
    /\ Len(hist[1]) >= 1
    /\ LastRecord(1).op = "ephemeral"
    /\ Len(LastRecord(1).log) = 3
    /\ LastRecord(1).log[1].op = "create"
    /\ LastRecord(1).log[2].op = "execute"
    /\ LastRecord(1).log[3].op = "delete"
    /\ ret[1].err = NoErr
    /\ ~ret[1].panicked

\* the execute request of a returned EphemeralScript.Execute call
C12_Invoked(c) ==
    /\ ret[c].returned
    /\ Len(hist[c]) >= 1
    /\ LastRecord(c).op = "ephemeral"
    /\ C3_Created(LastRecord(c))
    /\ ~ret[c].panicked

\* the cleanup delete of the call failed
C12_CleanupFailed(c) ==
    LET lg == LastRecord(c).log IN lg[Len(lg)].op = "delete" /\ lg[Len(lg)].err # "nil"

\* C12: EphemeralScript.Execute returns the outcome of its invoke step: the
\* result the engine returned and no error, or the error of the invoke step;
\* whether the cleanup delete failed makes no difference.
C12_CleanupFailureSwallowed ==
    \A c \in Callers :
        C12_Invoked(c) =>
            LET lg == LastRecord(c).log
                x == lastExec[c]
            IN /\ ~x.sent => ret[c].err = MarshalErr /\ ret[c].res = NilRes
               /\ x.sent => ret[c].err.kind = lg[2].err
               /\ (x.sent /\ x.net = NetOK /\ x.found /\ x.engine.kind = "return")
                     => ret[c].err = NoErr /\ ret[c].res = ResOf(x.engine.text)
               /\ (x.sent /\ x.net = NetOK /\ x.found /\ x.engine.kind = "throw")
                     => ret[c].err = ErrorsNew(x.engine.text)

C12_Witness ==
    /\ C12_Invoked(1)
    /\ C12_CleanupFailed(1)
    /\ lastExec[1].engine.kind = "return"
    /\ lastExec[1].engine.text = <<"a">>
    /\ ret[1].err = NoErr
    /\ ret[1].res = ResOf(<<"a">>)

\* C13: a call that returns a non-nil error returns a nil Execution Result
\* with it, also when the script threw.
C13_NoResultWithError ==
    \A c \in Callers :
        (ret[c].returned /\ ~ret[c].panicked /\ ret[c].err # NoErr)
            => ret[c].res = NilRes

\* C14: when the execute request meets a connection failure (no HTTP
\* response), the call returns that transport error unchanged.
C14_TransportErrorUnchanged ==
    \A c \in Callers :
        (ret[c].returned /\ lastExec[c].sent /\ lastExec[c].net = NetNoConn)
            => ret[c].err = TransportErr

\* C15: CreateScript with a script whose content is missing or empty fails
\* with the invalid-argument error before any request is sent, and the
\* registry is left as it was.
C15_InvalidArgumentNoRequest ==
    \A c \in Callers : \A h \in EphemeralRecords(c) :
        h.desired.content \in {NoContent, EmptyContent} =>
            /\ Len(h.log) = 0
            /\ (ret[c].returned /\ h = LastRecord(c)) =>
                  /\ ret[c].err = InvalidArgErr
                  /\ registry = h.regBefore

\* after the i-th call of the handler nothing more happened: no call of the
\* handler, no fetch, and the traversal returned e
C16_StoppedAt(i, e) ==
    /\ i = Len(cbLog)
    /\ fetches = cbLog[i].fetch
    /\ lpc = "returned"
    /\ retErr = e

\* C16: when a fetched page has no continuation token, the handler is called
\* for it with last = true (and only such pages are announced as last); the
\* traversal then stops without another fetch, whatever continue flag the
\* handler returned, and returns the error the handler returned for that
\* page (nil if none).
C16_LastPageStops ==
    \A i \in DOMAIN cbLog :
        /\ cbLog[i].last <=> cbLog[i].token = 0
        /\ cbLog[i].token = 0 => C16_StoppedAt(i, cbLog[i].err)

C16_Witness ==
    /\ Len(cbLog) = 2
    /\ cbLog[2].token = 0
    /\ cbLog[2].last
    /\ cbLog[2].cont
    /\ cbLog[2].err = HandlerErr
    /\ C16_StoppedAt(2, HandlerErr)

\* C17: when the handler returns an error for a page that is not the last,
\* the traversal returns that error, fetches no further page and does not
\* call the handler again, whatever continue flag came with the error.
C17_HandlerErrorStops ==
    \A i \in DOMAIN cbLog :
        (~cbLog[i].last /\ cbLog[i].err # NoErr) => C16_StoppedAt(i, cbLog[i].err)

C17_Witness ==
    /\ Len(cbLog) = 2
    /\ ~cbLog[2].last
    /\ cbLog[2].token # 0
    /\ cbLog[2].cont
    /\ cbLog[2].err = HandlerErr
    /\ lpc = "returned"
    /\ retErr = HandlerErr
    /\ fetches = 2

\* following the tokens from page p for at most n pages leads to a page
\* without a token
RECURSIVE ChainEnds(_, _)
ChainEnds(p, n) ==
    /\ n > 0
    /\ (pages[p].token = 0 \/ ChainEnds(pages[p].token, n - 1))
\* the chain of the server, from its first page, is well-formed
WellFormed == NumPages >= 1 /\ ChainEnds(1, NumPages)
\* every page of the server carries a token
AllTokensPresent == NumPages >= 1 /\ \A p \in DOMAIN pages : pages[p].token # 0
\* the traversal returned the error of a fetch
FetchFailed == retErr # NoErr /\ retErr # HandlerErr

C18_Terminates == (WellFormed /\ lpc = "call") ~> (lpc = "returned")

C18_CycleReturnsOnlyOnFailure ==
    (AllTokensPresent /\ AlwaysContinue /\ lpc = "returned") => FetchFailed

\* C18: over a server whose chain is well-formed, every ListAssetsPages /
\* ListComponentsPages call eventually returns, whatever the handler
\* returns; over a server all of whose pages carry a token, with a handler
\* that always returns (true, nil), the traversal does not return as long as
\* its fetches succeed.
C18_Termination == C18_Terminates /\ []C18_CycleReturnsOnlyOnFailure

C18_Witness ==
    /\ AllTokensPresent
    /\ AlwaysContinue
    /\ NumPages = 2
    /\ Len(cbLog) = MaxFetches
    /\ fetches = MaxFetches
    /\ lpc = "call"

\* the requests of the ensureAndExecute calls of caller c, as <<log, index>>
EnsureRequests(c) ==
    UNION {{<<lg, i>> : i \in DOMAIN lg} : lg \in EnsureLogs(c)}
\* the creates of caller c that succeeded
C19_CreatesDone(c) ==
    {x \in EnsureRequests(c) : x[1][x[2]].op = "create" /\ x[1][x[2]].err = "nil"}
\* the create at index i of record h was rejected because the name was taken
C19_Rejected(h, i) ==
    h.log[i].op = "create" /\ h.log[i].err = "status" /\ ~h.log[i].fault

\* C19: with two callers running ensureAndExecute at once for the same name,
\* in every interleaving at most one create of the name succeeds; a caller
\* whose create is rejected because the name was taken returns that failure
\* and sends nothing more.
C19_AtMostOneCreate ==
    /\ Cardinality(UNION {C19_CreatesDone(c) : c \in Callers}) <= 1
    /\ \A c \in Callers : \A h \in EnsureRecords(c) : \A i \in DOMAIN h.log :
          C19_Rejected(h, i) =>
              /\ i = Len(h.log)
              /\ (ret[c].returned /\ h = LastRecord(c)) =>
                    ret[c].err = StatusErr("script_already_exists")

C19_Witness ==
    /\ ret[1].returned /\ ret[2].returned
    /\ Len(hist[1]) = 1 /\ Len(hist[2]) = 1
    /\ \A c \in Callers : \A n \in ScriptNames : hist[c][1].regBefore[n] = Absent
    /\ Len(hist[1][1].log) = 3
    /\ hist[1][1].log[2].op = "create" /\ hist[1][1].log[2].err = "nil"
    /\ Len(hist[2][1].log) = 2
    /\ C19_Rejected(hist[2][1], 2)
    /\ ret[2].err = StatusErr("script_already_exists")

\* the execute at index i of record h ran a content that is not the one the
\* call desired
C20_Stale(h, i) ==
    h.log[i].op = "execute" /\ h.log[i].content # h.desired.content
\* caller d sent a create or an update of the name with content b
C20_Wrote(d, n, b) ==
    \E x \in EnsureRequests(d) :
        LET e == x[1][x[2]]
        IN e.op \in {"create", "update"} /\ e.name = n /\ e.content = b

\* C20: with two callers running ensureAndExecute at once on the same name
\* with different desired contents, a caller's execute can be sent while the
\* registry holds a content that is not the one the caller desired (the
\* witness); whenever that happens, the content the registry held was
\* written by the other caller between the reconcile step and the execute.
C20_StaleOnlyByRace ==
    \A c \in Callers : \A h \in EnsureRecords(c) : \A i \in DOMAIN h.log :
        C20_Stale(h, i) =>
            \E d \in Callers \ {c} : C20_Wrote(d, h.log[i].name, h.log[i].content)

C20_Witness ==
    /\ Len(hist[1]) = 1
    /\ Len(hist[1][1].log) = 3
    /\ hist[1][1].log[2].op = "update"
    /\ hist[1][1].log[2].err = "nil"
    /\ C20_Stale(hist[1][1], 3)
    /\ hist[1][1].desired.content = "v1"
    /\ hist[1][1].log[3].content = "v2"
    /\ C20_Wrote(2, hist[1][1].desired.name, "v2")

\* no request of the call met a fault of the transport
C21_FaultFree(h) == \A i \in DOMAIN h.log : ~h.log[i].fault
\* the call ended with the failure of its last request
C21_CutShort(h) == Len(h.log) >= 1 /\ h.log[Len(h.log)].err # "nil"
\* caller c made two ensureAndExecute calls with the same desired script: the
\* first was cut short by a failure, the second met a fault-free transport
C21_Retried(c) ==
    /\ Len(hist[c]) = 2
    /\ hist[c][1].op = "ensure"
    /\ hist[c][2].op = "ensure"
    /\ hist[c][1].desired = hist[c][2].desired
    /\ C21_CutShort(hist[c][1])
    /\ C21_FaultFree(hist[c][2])

\* C21: after an ensureAndExecute call that a failure cut short (at the get,
\* the create, the update or the execute, a request that took effect but
\* whose response was lost included), a later call of the same caller with
\* the same desired script over a fault-free transport reaches its execute
\* with the registry holding desired.content under desired.name.
C21_RetryReconciles ==
    \A c \in Callers :
        C21_Retried(c) =>
            LET lg == hist[c][2].log
            IN /\ Len(lg) >= 2
               /\ lg[Len(lg)].op = "execute"
               /\ lg[Len(lg)].name = hist[c][2].desired.name
               /\ lg[Len(lg)].content = hist[c][2].desired.content

\* the create of the first call took effect but its response was lost: the
\* retry finds the script and executes it
C21_Witness ==
    /\ C21_Retried(1)
    /\ hist[1][1].regBefore[hist[1][1].desired.name] = Absent
    /\ Len(hist[1][1].log) = 2
    /\ hist[1][1].log[2].op = "create"
    /\ hist[1][1].log[2].fault
    /\ Len(hist[1][2].log) = 2
    /\ hist[1][2].log[1].err = "nil"
    /\ hist[1][2].log[2].op = "execute"

\* the execute request x was answered with a failure status
C22_FailureStatus(x) ==
    /\ x.sent
    /\ \/ x.net = NetUnavail
       \/ x.net = NetOK /\ (~x.found \/ x.engine.kind \in {"throw", "odd"})
\* the body of that answer
C22_FailureBody(x) ==
    IF x.net = NetUnavail THEN HtmlPage
    ELSE IF x.engine.kind = "odd" THEN x.engine.text
    ELSE IF ~x.found THEN HtmlPage
    ELSE ExecutionResultBody(x.engine.text)
\* the call of caller c returned after its execute request was answered with
\* a failure status and a body that does not parse as an Execution Result
C22_Unparsable(c) ==
    /\ ret[c].returned
    /\ C22_FailureStatus(lastExec[c])
    /\ UnmarshalResult(C22_FailureBody(lastExec[c])).err # NoErr

\* C22: when the execute endpoint answers with a failure status and a body
\* that cannot be parsed as an Execution Result, ExecuteScript returns the
\* parse error itself: not an execution error made of a result text, and not
\* success.
C22_ParseErrorReturned ==
    \A c \in Callers :
        C22_Unparsable(c) =>
            /\ ~ret[c].panicked
            /\ ret[c].err = JsonErr
            /\ ret[c].err.kind # "new"
            /\ ret[c].err # NoErr

\* the script was found and run, and the endpoint answered 500 with an HTML
\* page
C22_Witness ==
    /\ C22_Unparsable(1)
    /\ lastExec[1].net = NetOK
    /\ lastExec[1].found
    /\ lastExec[1].engine = [kind |-> "odd", text |-> HtmlPage]
    /\ ret[1].err = JsonErr

\* the requests of one ensureAndExecute call, in the order they were sent:
\* a get first, then at most one of create and update, then the execute
C23_Ordered(lg) ==
    /\ Len(lg) <= 3
    /\ Len(lg) >= 1 => lg[1].op = "get"
    /\ Len(lg) >= 2 => lg[2].op \in {"create", "update", "execute"}
    /\ Len(lg) = 3 => lg[2].op \in {"create", "update"} /\ lg[3].op = "execute"
    /\ \A o \in {"get", "create", "update", "execute"} : Count(lg, o) <= 1
    /\ Count(lg, "create") + Count(lg, "update") <= 1
    /\ Count(lg, "delete") = 0

\* C23: one ensureAndExecute call sends at most three requests, in the order
\* get, then at most one of create and update, then execute: never both a
\* create and an update, never a request twice, and the execute only after
\* the requests before it returned (it is the last of the log, and no
\* request is sent while the call waits at another position).
C23_AtMostThreeInOrder ==
    /\ \A c \in Callers : \A lg \in EnsureLogs(c) : C23_Ordered(lg)
    /\ \A c \in Callers :
          op[c] = "ensure" =>
              /\ pc[c] = "get" => log[c] = <<>>
              /\ pc[c] \in {"create", "update"} => Len(log[c]) = 1
              /\ pc[c] = "execute" =>
                    /\ Len(log[c]) \in {1, 2}
                    /\ \A i \in DOMAIN log[c] : log[c][i].op # "execute"

\* a call of three requests: get, update, execute
C23_Witness ==
    /\ ret[1].returned
    /\ Len(hist[1]) >= 1
    /\ LastRecord(1).op = "ensure"
    /\ Len(LastRecord(1).log) = 3
    /\ LastRecord(1).log[2].op = "update"
    /\ LastRecord(1).log[3].op = "execute"

\* caller c stands before the execute of an ensureAndExecute call that began
\* with the registry holding b (or nothing, Absent) under desired.name
C24_AtExecute(c, b) ==
    /\ op[c] = "ensure"
    /\ pc[c] = "execute"
    /\ regBefore[c][desired[c].name] = b

\* C24: with a single caller, at the moment ensureAndExecute sends its
\* execute the registry holds a script under desired.name whose content is
\* desired.content, whether the remote copy was absent, identical or
\* different before the call; and the script the execute names is that one.
C24_ExecutesDesired ==
    /\ \A c \in Callers :
          (op[c] = "ensure" /\ pc[c] = "execute") =>
              /\ script[c].name = desired[c].name
              /\ registry[desired[c].name] = desired[c].content
    /\ \A c \in Callers : \A h \in EnsureRecords(c) :
          \A i \in DOMAIN h.log :
              h.log[i].op = "execute" =>
                  /\ h.log[i].name = h.desired.name
                  /\ h.log[i].content = h.desired.content

\* the remote copy was different, the update went through, the execute is
\* about to be sent
C24_Witness ==
    /\ C24_AtExecute(1, "v1")
    /\ desired[1].content = "v2"
    /\ registry[desired[1].name] = "v2"
    /\ Len(log[1]) = 2
    /\ log[1][2].op = "update"

\* the remote copy was absent, the create went through
C24_WitnessAbsent ==
    /\ C24_AtExecute(1, Absent)
    /\ Len(log[1]) = 2
    /\ log[1][2].op = "create"
    /\ registry[desired[1].name] = desired[1].content

\* the remote copy was identical, nothing was written
C24_WitnessIdentical ==
    /\ C24_AtExecute(1, desired[1].content)
    /\ Len(log[1]) = 1
    /\ registry = regBefore[1]

\* every request of the log names n
C25_Addresses(lg, n) == \A i \in DOMAIN lg : lg[i].name = n
\* the registries r and q differ at most under the names of S
C25_SameOutside(r, q, S) == \A n \in Names \ S : r[n] = q[n]
\* the registry as the i-th recorded call of caller c left it
C25_After(c, i) ==
    IF i < Len(hist[c]) THEN hist[c][i + 1].regBefore
    ELSE IF op[c] # "none" THEN regBefore[c]
    ELSE registry
\* the create and the delete of an EphemeralScript.Execute call both succeeded
C25_CreatedAndDeleted(lg) ==
    /\ Len(lg) >= 2
    /\ lg[1].op = "create"
    /\ lg[1].err = "nil"
    /\ lg[Len(lg)].op = "delete"
    /\ lg[Len(lg)].err = "nil"

\* C25: ensureAndExecute addresses only desired.name and
\* EphemeralScript.Execute only the name it generated; the scripts under any
\* other name are as they were before the call; and after an
\* EphemeralScript.Execute whose create and delete both succeeded the
\* registry is the one before the call.
C25_OnlyOwnName ==
    \A c \in Callers :
        /\ op[c] = "ensure" =>
              /\ C25_Addresses(log[c], desired[c].name)
              /\ C25_SameOutside(registry, regBefore[c], {desired[c].name})
        /\ op[c] = "ephemeral" =>
              /\ \E u \in Uuids :
                    /\ C25_Addresses(log[c], u)
                    /\ C25_SameOutside(registry, regBefore[c], {u})
              /\ pc[c] \in {"eexecute", "edelete"} => script[c].name \in Uuids
        /\ \A i \in DOMAIN hist[c] :
              LET h == hist[c][i]
              IN /\ h.op = "ensure" =>
                       /\ C25_Addresses(h.log, h.desired.name)
                       /\ C25_SameOutside(C25_After(c, i), h.regBefore,
                                          {h.desired.name})
                 /\ h.op = "ephemeral" =>
                       /\ \E u \in Uuids :
                             /\ C25_Addresses(h.log, u)
                             /\ C25_SameOutside(C25_After(c, i), h.regBefore, {u})
                       /\ C25_CreatedAndDeleted(h.log) =>
                             C25_After(c, i) = h.regBefore

\* an EphemeralScript.Execute created, executed and deleted its script while
\* the registry held both named scripts, and left it as it was
C25_Witness ==
    /\ ret[1].returned
    /\ Len(hist[1]) >= 1
    /\ LastRecord(1).op = "ephemeral"
    /\ Len(LastRecord(1).log) = 3
    /\ C25_CreatedAndDeleted(LastRecord(1).log)
    /\ \A n \in ScriptNames \cup OtherNames : registry[n] # Absent
    /\ registry = LastRecord(1).regBefore

\* an ensureAndExecute wrote desired.name and left the other script alone
C25_WitnessEnsure ==
    /\ ret[1].returned
    /\ Len(hist[1]) >= 1
    /\ LastRecord(1).op = "ensure"
    /\ registry # LastRecord(1).regBefore
    /\ \A n \in OtherNames : registry[n] = LastRecord(1).regBefore[n]

\* the call of caller c is over (returned or aborted) after its execute
\* request was answered with a failure status
C26_ExecuteFailed(c) ==
    /\ ret[c].returned
    /\ C22_FailureStatus(lastExec[c])

\* C26: for every failure response of the execute endpoint ExecuteScript
\* ends by returning an error value; a failure body that is valid JSON
\* without a result field ({} or null) yields a returned error too, not an
\* abort from dereferencing the missing result.
C26_FailureReturnsError ==
    \A c \in Callers :
        C26_ExecuteFailed(c) =>
            /\ ~ret[c].panicked
            /\ ret[c].err # NoErr

\* the endpoint answered a failure status with the body {} or null, and the
\* call died of the nil dereference
C26_NilResultAbort ==
    \E c \in Callers :
        /\ C26_ExecuteFailed(c)
        /\ lastExec[c].engine.kind = "odd"
        /\ lastExec[c].engine.text \in {<<"{", "}">>, <<"null">>}
        /\ ret[c].panicked

====
